---- MODULE Spec2Model ----
(***************************************************************************)
(* A model of the libretro entry points of melonDS DS                      *)
(* (src/src/libretro/libretro.cpp): the local-multiplayer packet relay     *)
(* (the Platform MP functions), the core lifecycle (retro_init to          *)
(* retro_deinit) and the save-buffer write path (Platform Write functions).*)
(*                                                                         *)
(* The class CoreState (core/core.hpp), the task queue                     *)
(* (retro/task_queue.hpp) and the save managers (sram.hpp) are only used   *)
(* by libretro.cpp; their behaviour is taken from the specification and    *)
(* is marked "spec" in the comments below.                                 *)
(***************************************************************************)
EXTENDS Integers, Sequences, FiniteSets, TLC

\* ------------------------------------------------------------------ bounds
\* Number of packets the host transport delivers in one behaviour of Spec.
MaxRecv == 2
\* The same for the behaviours of SpecAll and SpecFair.
MaxRecvAll == 2
\* Number of save-buffer writes of the engine in one behaviour of SpecCore.
MaxWrites == 2
\* Largest number of content items passed to retro_load_game_special.
MaxContent == 2
\* Largest association id carried by a received Reply packet.
MaxAid == 2

\* --------------------------------------------------------------- constants
\* Staleness tolerance of MP_RecvReplies (libretro.cpp:400).
StaleWindow == 32
\* Size of one reply slot of the caller's buffer (libretro.cpp:407).
SlotSize == 1024
\* Width of the result of MP_RecvReplies, a u16 (libretro.cpp:388).
MaskBits == 16
\* MP_SendReply asserts aid < 16 (libretro.cpp:375).
AidLimit == 16

None == [none |-> TRUE]

\* Packet::Type values used by libretro.cpp:355-380.
PacketTypes == {"Other", "Cmd", "Reply"}
\* Timestamps of received packets and of MP_RecvReplies calls.  All model
\* timestamps are far below 2^64 - 32.
PktTimestamps == {0, 100}
CallTimestamps == {10, 40}
\* Payload lengths of received packets.
PktLens == {1}
\* Lengths passed to the MP_Send functions.
SendLens == {1, 2}
\* Content of a caller's buffer that a call did not write.
Untouched == 0
\* aid values passed to MP_SendReply; 16 violates the assertion.
SendAids == (0..MaxAid) \cup {AidLimit}

VARIABLES
    \* ---- multiplayer relay (CoreState's MpState, spec)
    mpActive,          \* Core.MpActive()
    receivedPackets,   \* queue of received packets, oldest first
    \* ---- the emulator thread inside a blocking MP call
    pc,                \* "idle" | "replies" | "hostpkt"
    ret,               \* u16 ret of MP_RecvReplies
    aidmask,           \* argument of MP_RecvReplies
    timestamp,         \* argument of MP_RecvReplies
    packets,           \* caller's reply buffer, one entry per 1024-byte slot
    oobWrite,          \* a memcpy of MP_RecvReplies went outside the buffer
    rxData,            \* caller's data buffer of MP_RecvPacket/MP_RecvHostPacket
    rxTimestamp,       \* caller's *timestamp
    lastOp,            \* the last finished Platform::MP call and its result
    sent,              \* what the last call passed to the host send function
    aborted,           \* a retro_assert failed or the process crashed
    \* ---- history of the run
    recvLeft,          \* number of packets the transport has yet to deliver
    arrived,           \* every packet received, in arrival order
    delivered,         \* every packet popped from the queue, in order
    callStart,         \* Len(delivered) when the current MP_RecvReplies began
    handed,            \* payloads handed out by MP_RecvPacket/MP_RecvHostPacket
    \* ---- core lifecycle (CoreState, spec)
    initialized,       \* Core.IsInitialized()
    state,             \* lifecycle state
    engines,           \* number of live emulation engine instances
    taskInit,          \* the task runner is initialized (retro::task)
    lastCall,          \* the last finished entry point and its outcome
    \* ---- save buffers, one of each kind (sram, spec)
    mem,               \* number of writes applied to the in-memory buffer
    disk,              \* number of writes the backing file reflects
    dirty,             \* the buffer differs from what was last handed to a flush
    task,              \* phase of the deferred flush task
    snap,              \* content a running flush task is writing
    writesLeft         \* number of writes the engine has yet to make

mpVars == <<mpActive, receivedPackets, pc, ret, aidmask, timestamp, packets,
            oobWrite, rxData, rxTimestamp, lastOp, sent, recvLeft, arrived,
            delivered, callStart, handed>>

saveVars == <<mem, disk, dirty, task, snap, writesLeft>>

coreVars == <<initialized, state, engines, taskInit, lastCall, saveVars>>

vars == <<mpVars, aborted, coreVars>>

\* ------------------------------------------------------------ u16 bit masks
RECURSIVE FromBits(_)
FromBits(S) ==
    IF S = {} THEN 0
    ELSE LET i == CHOOSE x \in S : TRUE IN 2^i + FromBits(S \ {i})

Bits(n) == {i \in 0..(MaskBits - 1) : (n \div (2^i)) % 2 = 1}
BitAnd(a, b) == FromBits(Bits(a) \cap Bits(b))
BitOr(a, b) == FromBits(Bits(a) \cup Bits(b))
\* (u16)(1 << aid), libretro.cpp:406
Shl1(aid) == (2^aid) % (2^MaskBits)

Min(a, b) == IF a < b THEN a ELSE b

\* ------------------------------------------------------------------ packets
\* MelonDsDs::Packet(data, len, timestamp, aid, type), with the client the
\* datagram came from.  The payload is named by one number.
Packet(type, aid, ts, data, len, origin) ==
    [type |-> type, aid |-> aid, timestamp |-> ts, data |-> data,
     len |-> len, origin |-> origin]

\* p.Timestamp() < (timestamp - 32) on u64 (libretro.cpp:400).  For
\* timestamp < 32 the subtraction wraps to 2^64 - 32 + timestamp, which is
\* above every packet timestamp of the model.
IsStale(p, t) ==
    IF t >= StaleWindow THEN p.timestamp < t - StaleWindow ELSE TRUE

\* ------------------------------------------------------------ CoreState (spec)
\* MpNextPacket: empty when the relay is inactive or nothing is queued,
\* else the oldest packet.
MpNextPacket ==
    IF ~mpActive \/ receivedPackets = <<>> THEN None ELSE Head(receivedPackets)

\* MpNextPacketBlock waits while the relay is active and nothing is queued.
MpNextPacketBlockWaits == mpActive /\ receivedPackets = <<>>

\* Effect of a pop on the queue and on the history.
Pop(o_p) ==
    IF o_p = None
    THEN UNCHANGED <<receivedPackets, delivered>>
    ELSE /\ receivedPackets' = Tail(receivedPackets)
         /\ delivered' = Append(delivered, o_p)

\* -------------------------------------------------------------- libretro.cpp
\* What a finished call leaves for its caller: the return value (lastOp),
\* the packet given to the host send function (sent) and the caller's
\* buffers (rxData, rxTimestamp, packets).  Every call starts with buffers
\* it has not written yet.
EmptyBuffer == [s \in 0..(AidLimit - 2) |-> [data |-> Untouched, len |-> 0]]

Result(op, r, len) == lastOp' = [op |-> op, ret |-> r, len |-> len]

NoReplyOutput == packets' = EmptyBuffer /\ oobWrite' = FALSE
NoRecvOutput == rxData' = Untouched /\ rxTimestamp' = Untouched

\* DeconstructPacket: the value returned.
DeconstructLenBad(o_p) == IF o_p = None THEN 1 ELSE o_p.len
DeconstructLen(o_p) == IF o_p = None THEN 0 ELSE o_p.len

\* DeconstructPacket: the content of the caller's data buffer afterwards.
DeconstructDataStale(o_p) == Untouched
DeconstructData(o_p) == IF o_p = None THEN Untouched ELSE o_p.data

DeconstructPacket(op, o_p) ==
    /\ rxData' = DeconstructData(o_p)
    /\ rxTimestamp' = IF o_p = None THEN Untouched ELSE o_p.timestamp
    /\ Result(op, DeconstructLen(o_p), 0)
    /\ handed' = IF DeconstructLen(o_p) > 0
                 THEN Append(handed, rxData') ELSE handed
    /\ sent' = None
    /\ NoReplyOutput

\* The ternary of MP_SendPacket/MP_SendCmd/MP_SendReply/MP_SendAck.
SendResultAlways(ok, len) == len
SendResultNegated(ok, len) == IF ok THEN 0 ELSE len
SendResult(ok, len) == IF ok THEN len ELSE 0

\* Core.MpSendPacket (spec): no-op returning false when inactive, else the
\* result of the host send function.
MpSendPacket(op, type, aid, len) ==
    \E hostOk \in BOOLEAN :
        LET ok == mpActive /\ hostOk IN
        /\ sent' = IF mpActive
                   THEN [type |-> type, aid |-> aid, len |-> len, ok |-> hostOk]
                   ELSE None
        /\ Result(op, SendResult(ok, len), len)
        /\ NoRecvOutput
        /\ NoReplyOutput

Idle == pc = "idle" /\ ~aborted

sendFrame == <<mpActive, receivedPackets, pc, ret, aidmask, timestamp,
               recvLeft, arrived, delivered, callStart, handed, aborted,
               coreVars>>

MP_SendPacket ==
    /\ Idle
    /\ \E len \in SendLens : MpSendPacket("MP_SendPacket", "Other", 0, len)
    /\ UNCHANGED sendFrame

MP_SendCmd ==
    /\ Idle
    /\ \E len \in SendLens : MpSendPacket("MP_SendCmd", "Cmd", 0, len)
    /\ UNCHANGED sendFrame

\* The body of MP_SendReply(data, len, timestamp, aid).
SendReply(len, aid) ==
    IF aid < AidLimit
    THEN /\ MpSendPacket("MP_SendReply", "Reply", aid, len)
         /\ UNCHANGED sendFrame
    ELSE /\ aborted' = TRUE
         /\ UNCHANGED <<mpVars, coreVars>>

MP_SendReply ==
    /\ Idle
    /\ \E len \in SendLens, aid \in SendAids : SendReply(len, aid)

\* MP_SendAck forwarding a packet of a type of its own.
MP_SendAck_OwnType ==
    /\ Idle
    /\ \E len \in SendLens : MpSendPacket("MP_SendAck", "Ack", 0, len)
    /\ UNCHANGED sendFrame

MP_SendAck ==
    /\ Idle
    /\ \E len \in SendLens : MpSendPacket("MP_SendAck", "Cmd", 0, len)
    /\ UNCHANGED sendFrame

recvFrame == <<mpActive, ret, aidmask, timestamp, recvLeft, arrived,
               callStart, aborted, coreVars>>

MP_RecvPacket ==
    /\ Idle
    /\ LET o_p == MpNextPacket IN
         /\ Pop(o_p)
         /\ DeconstructPacket("MP_RecvPacket", o_p)
    /\ UNCHANGED <<pc, recvFrame>>

\* MP_RecvHostPacket: entry.  When MpNextPacketBlock has to wait the thread
\* stays inside the call.
MP_RecvHostPacket ==
    /\ Idle
    /\ IF MpNextPacketBlockWaits
       THEN /\ pc' = "hostpkt"
            /\ Result("none", 0, 0)
            /\ sent' = None
            /\ NoRecvOutput
            /\ NoReplyOutput
            /\ UNCHANGED <<receivedPackets, delivered, handed>>
       ELSE /\ LET o_p == MpNextPacket IN
                 /\ Pop(o_p)
                 /\ DeconstructPacket("MP_RecvHostPacket", o_p)
            /\ pc' = pc
    /\ UNCHANGED recvFrame

\* MP_RecvHostPacket: the wait inside MpNextPacketBlock ends.
RecvHostPacketWake ==
    /\ pc = "hostpkt" /\ ~aborted
    /\ ~MpNextPacketBlockWaits
    /\ LET o_p == MpNextPacket IN
         /\ Pop(o_p)
         /\ DeconstructPacket("MP_RecvHostPacket", o_p)
    /\ pc' = "idle"
    /\ UNCHANGED recvFrame

\* ---- MP_RecvReplies
\* while((ret & aidmask) != aidmask)
LoopDoneNever(r, m) == FALSE
LoopDone(r, m) == BitAnd(r, m) = m

\* if(!o_p.has_value()) return ret;
ReturnsOnEmptyNever(o_p) == FALSE
ReturnsOnEmpty(o_p) == o_p = None

\* The two `continue` tests of the loop body.
SkippedStaleOnly(p, t) == IsStale(p, t)
Skipped(p, t) == IsStale(p, t) \/ p.type /= "Reply"

\* ret |= 1<<p.Aid();
Accumulate(r, p) == BitOr(r, Shl1(p.aid))

\* memcpy(&packets[(p.Aid()-1)*1024], ...): slot aid-1 of the buffer.
SlotOf(p) == p.aid - 1
InBuffer(p) == SlotOf(p) \in DOMAIN EmptyBuffer

Return(r) ==
    /\ pc' = "idle"
    /\ Result("MP_RecvReplies", r, 0)
    \* the arguments and locals do not outlive the call
    /\ ret' = 0
    /\ aidmask' = 0
    /\ timestamp' = 0
    /\ callStart' = 0

Continue(r) ==
    /\ ret' = r
    /\ UNCHANGED <<pc, lastOp, aidmask, timestamp, callStart>>

replyFrame == <<mpActive, rxData, rxTimestamp, sent, recvLeft, arrived, handed,
                coreVars>>

\* Entry of MP_RecvReplies up to the first MpNextPacketBlock.
MP_RecvReplies ==
    /\ Idle
    /\ \E m \in 0..(2^(MaxAid + 1) - 1), t \in CallTimestamps :
         IF ~mpActive \/ LoopDone(0, m)
         THEN Return(0)
         ELSE /\ pc' = "replies"
              /\ ret' = 0
              /\ aidmask' = m
              /\ timestamp' = t
              /\ callStart' = Len(delivered)
              /\ Result("none", 0, 0)
    /\ sent' = None
    /\ NoRecvOutput
    /\ NoReplyOutput
    /\ UNCHANGED <<mpActive, receivedPackets, recvLeft, arrived, delivered,
                   handed, aborted, coreVars>>

\* The rest of a pass of the loop once a fresh Reply was accepted.
AfterAccept(r) ==
    IF LoopDone(r, aidmask) THEN Return(r) ELSE Continue(r)

\* One pass of the loop body, from the return of MpNextPacketBlock to the
\* next call of it (or to the return of MP_RecvReplies).
RecvRepliesStep ==
    /\ pc = "replies" /\ ~aborted
    /\ ~MpNextPacketBlockWaits
    /\ LET o_p == MpNextPacket IN
         /\ Pop(o_p)
         /\ IF o_p = None
            THEN /\ IF ReturnsOnEmpty(o_p) THEN Return(ret) ELSE Continue(ret)
                 /\ UNCHANGED <<packets, oobWrite, aborted>>
            ELSE IF Skipped(o_p, timestamp)
            THEN /\ Continue(ret)
                 /\ UNCHANGED <<packets, oobWrite, aborted>>
            ELSE IF InBuffer(o_p)
            THEN /\ packets' = [packets EXCEPT ![SlotOf(o_p)] =
                         [data |-> o_p.data, len |-> Min(o_p.len, SlotSize)]]
                 /\ UNCHANGED <<oobWrite, aborted>>
                 /\ AfterAccept(Accumulate(ret, o_p))
            ELSE \* the write lands before the buffer: the process either
                 \* crashes or goes on with foreign memory overwritten
                 /\ oobWrite' = TRUE
                 /\ packets' = packets
                 /\ \/ /\ aborted' = TRUE
                       /\ Continue(Accumulate(ret, o_p))
                    \/ /\ aborted' = aborted
                       /\ AfterAccept(Accumulate(ret, o_p))
    /\ UNCHANGED replyFrame

\* ---- the host's netpacket callbacks
hostFrame == <<pc, ret, aidmask, timestamp, packets, oobWrite, rxData,
               rxTimestamp, lastOp, sent, delivered, callStart, handed,
               aborted, coreVars>>

\* Core.MpStarted (spec): the host functions are recorded, the relay is
\* active.
CoreMpStarted == mpActive' = TRUE

\* Core.MpStopped (spec): the relay is inactive.
CoreMpStopped == mpActive' = FALSE

\* Core.MpPacketReceived (spec): the datagram is parsed and appended to the
\* queue.
CoreMpPacketReceived(p) ==
    /\ receivedPackets' = Append(receivedPackets, p)
    /\ arrived' = Append(arrived, p)

\* MpStarted is an entry point of the host; the host does not call it while
\* the emulator thread is inside a blocking MP call.
MpStarted ==
    /\ Idle
    /\ CoreMpStarted
    /\ UNCHANGED <<receivedPackets, recvLeft, arrived>>
    /\ UNCHANGED hostFrame

MpStopped ==
    /\ ~aborted
    /\ CoreMpStopped
    /\ UNCHANGED <<receivedPackets, recvLeft, arrived>>
    /\ UNCHANGED hostFrame

\* MpReceived: one datagram of the transport.  Non-Reply packets are built
\* with aid 0 (libretro.cpp:355, 364, 380), a Reply carries the aid of the
\* client it comes from (libretro.cpp:376).
MpReceived ==
    /\ ~aborted
    /\ recvLeft > 0
    /\ \E type \in PacketTypes, aid \in 0..MaxAid, ts \in PktTimestamps,
          len \in PktLens :
         /\ type /= "Reply" => aid = 0 /\ ts = 100
         /\ CoreMpPacketReceived(
                Packet(type, aid, ts, Len(arrived) + 1, len, aid))
    /\ recvLeft' = recvLeft - 1
    /\ mpActive' = mpActive
    /\ UNCHANGED hostFrame

\* ============================================================== lifecycle
LoadedStates == {"GameLoaded", "Running", "ContextLost"}
States == {"Uninitialized", "Initialized", "Unloaded"} \cup LoadedStates

\* MELONDSDS_GAME_TYPE_NDS and a multi-content type of
\* retro_load_game_special.
GameTypes == {"NDS", "SLOT_1_2_BOOT"}
\* A retro_game_info the core can load, and one it cannot.
Infos == {"valid", "malformed"}
\* What Core.Reset and Core.ResetRenderState can throw.
Faults == {"opengl_exception", "emulator_exception", "std_exception",
           "unknown"}
SaveKinds == {"Nds", "Gba", "Firmware"}
Phases == {"none", "pending", "running", "finished"}

Alive == ~aborted

Call(op, r, type, num, log, phases) ==
    lastCall' = [op |-> op, ret |-> r, type |-> type, num |-> num,
                 log |-> log, phases |-> phases, fault |-> "none",
                 escaped |-> FALSE]

\* An entry point in which the callee threw `fault`: what the entry point
\* told the host (log) and whether the exception left the entry point.
Thrown(op, fault, log, escaped) ==
    lastCall' = [op |-> op, ret |-> TRUE, type |-> "none", num |-> 0,
                 log |-> log, phases |-> {}, fault |-> fault,
                 escaped |-> escaped]

Done(op) == Call(op, TRUE, "none", 0, <<>>, {})

\* retro_init.  retro_assert(!Core.IsInitialized()) ends the process when
\* the core is initialized already; else the task runner is initialized and
\* the CoreState is constructed in place.
\* retro::task::init (spec).
TaskInit == taskInit' = TRUE

\* memset of CoreStateBuffer and the placement-new of CoreState (spec): a
\* fresh core state without an engine.  An engine the overwritten state
\* owned is not destroyed.
CoreConstruct ==
    /\ initialized' = TRUE
    /\ state' = "Initialized"
    /\ engines' = engines

retro_init_NoAssert ==
    /\ Alive
    /\ TaskInit
    /\ CoreConstruct
    /\ Done("retro_init")
    /\ UNCHANGED <<saveVars, mpVars, aborted>>

retro_init ==
    /\ Alive
    /\ IF initialized
       THEN /\ aborted' = TRUE
            /\ UNCHANGED <<coreVars, mpVars>>
       ELSE /\ TaskInit
            /\ CoreConstruct
            /\ Done("retro_init")
            /\ UNCHANGED <<saveVars, mpVars, aborted>>

\* Core.LoadGame (spec): the standard type takes 0 or 1 item, a special
\* type at least one; every item must be loadable and the construction of
\* the engine must not throw.
ContentOk(type, content) ==
    /\ type = "NDS" => Len(content) <= 1
    /\ type /= "NDS" => Len(content) >= 1
    /\ \A i \in 1..Len(content) : content[i] = "valid"

LoadGame(op, type, content) ==
    \E throws \in BOOLEAN :
        IF ContentOk(type, content) /\ ~throws
        THEN /\ engines' = engines + 1
             /\ state' = "GameLoaded"
             \* the save buffers are read from their files
             /\ mem' = disk
             /\ dirty' = [k \in SaveKinds |-> FALSE]
             /\ Call(op, TRUE, type, Len(content), <<>>, {})
             /\ UNCHANGED <<initialized, taskInit, disk, task, snap,
                            writesLeft>>
        ELSE /\ Call(op, FALSE, type, Len(content), <<>>, {})
             /\ UNCHANGED <<initialized, state, engines, taskInit, saveVars>>

\* std::span<const retro_game_info> content = info ? std::span(info, 1) : {}
LoadContentTwo(info) == IF info = "null" THEN <<>> ELSE <<info, info>>
LoadContent(info) == IF info = "null" THEN <<>> ELSE <<info>>

\* The host loads content into an initialized core that has none.
CanLoad == Alive /\ initialized /\ state = "Initialized"

retro_load_game ==
    /\ CanLoad
    /\ \E info \in Infos \cup {"null"} :
         LoadGame("retro_load_game", "NDS", LoadContent(info))
    /\ UNCHANGED <<mpVars, aborted>>

retro_load_game_special ==
    /\ CanLoad
    /\ \E type \in GameTypes, num \in 0..MaxContent :
         \E content \in [1..num -> Infos] :
             LoadGame("retro_load_game_special", type, content)
    /\ UNCHANGED <<mpVars, aborted>>

HasGame == Alive /\ initialized /\ state \in LoadedStates

\* Core.Run (spec): one frame.
CoreRun == state' = IF state = "ContextLost" THEN state ELSE "Running"

\* An exception no catch block of the entry point takes leaves the entry
\* point and unwinds into the host: the process ends in std::terminate
\* unless the host has a handler of its own.
Escapes(op, fault) ==
    /\ Thrown(op, fault, <<>>, TRUE)
    /\ aborted' \in BOOLEAN

\* retro_run calls Core.Run outside any try block.
retro_run ==
    /\ HasGame
    /\ \E fault \in Faults \cup {"none"} :
         IF fault = "none"
         THEN /\ CoreRun
              /\ Done("retro_run")
              /\ aborted' = aborted
         ELSE /\ state' = state
              /\ Escapes("retro_run", fault)
    /\ UNCHANGED <<initialized, engines, taskInit, saveVars, mpVars>>

\* Core.Serialize and Core.Unserialize (spec): the state is written to or
\* read from the host's buffer; false when the buffer does not fit.
CoreSerialize(op) ==
    \E ok \in BOOLEAN : Call(op, ok, "none", 0, <<>>, {})

\* retro_serialize and retro_unserialize return what the core returns, with
\* no try block around the call.
Serialization(op) ==
    /\ HasGame
    /\ \E fault \in Faults \cup {"none"} :
         IF fault = "none"
         THEN /\ CoreSerialize(op)
              /\ aborted' = aborted
         ELSE Escapes(op, fault)
    /\ UNCHANGED <<initialized, state, engines, taskInit, saveVars, mpVars>>

retro_serialize == Serialization("retro_serialize")
retro_unserialize == Serialization("retro_unserialize")

\* The catch blocks of retro_reset and HardwareContextReset.
CaughtNoShutdown(fault) ==
    IF fault = "none" THEN <<>> ELSE <<"set_error_message">>
Caught(fault) ==
    IF fault = "none" THEN <<>> ELSE <<"set_error_message", "shutdown">>

retro_reset ==
    /\ HasGame
    /\ \E fault \in Faults \cup {"none"} :
         Thrown("retro_reset", fault, Caught(fault), FALSE)
    /\ UNCHANGED <<initialized, state, engines, taskInit, saveVars, mpVars,
                   aborted>>

\* Core.ResetRenderState (spec): the renderer resources are allocated
\* again, unless it throws.
CoreResetRenderState(fault) ==
    state' = IF fault = "none" /\ state = "ContextLost"
             THEN "GameLoaded" ELSE state

HardwareContextReset ==
    /\ Alive /\ initialized
    /\ \E fault \in Faults \cup {"none"} :
         /\ CoreResetRenderState(fault)
         /\ Thrown("HardwareContextReset", fault, Caught(fault), FALSE)
    /\ UNCHANGED <<initialized, engines, taskInit, saveVars, mpVars, aborted>>

\* Core.DestroyRenderState (spec): the renderer resources are released;
\* the engine is untouched.
CoreDestroyRenderState ==
    state' = IF state \in LoadedStates THEN "ContextLost" ELSE state

\* HardwareContextDestroyed is noexcept and has no try block: an exception
\* of Core.DestroyRenderState ends the process in std::terminate.
HardwareContextDestroyed ==
    /\ Alive /\ initialized
    /\ \E fault \in Faults \cup {"none"} :
         IF fault = "none"
         THEN /\ CoreDestroyRenderState
              /\ Done("HardwareContextDestroyed")
              /\ aborted' = aborted
         ELSE /\ state' = state
              /\ Thrown("HardwareContextDestroyed", fault, <<>>, FALSE)
              /\ aborted' = TRUE
    /\ UNCHANGED <<initialized, engines, taskInit, saveVars, mpVars>>

\* ---- save buffers
\* Core.WriteNdsSave/WriteGbaSave/WriteFirmware (spec): the write is applied
\* to the buffer, the region is marked dirty and a flush is deferred to the
\* task runner; writes during the delay add no second task.
WriteSave(k) ==
    /\ HasGame
    /\ writesLeft > 0
    /\ writesLeft' = writesLeft - 1
    /\ mem' = [mem EXCEPT ![k] = @ + 1]
    /\ dirty' = [dirty EXCEPT ![k] = TRUE]
    /\ task' = IF taskInit /\ task[k] \in {"none", "finished"}
               THEN [task EXCEPT ![k] = "pending"] ELSE task
    /\ UNCHANGED <<initialized, state, engines, taskInit, lastCall, disk,
                   snap, mpVars, aborted>>

WriteNDSSave == WriteSave("Nds")
WriteGBASave == WriteSave("Gba")
WriteFirmware == WriteSave("Firmware")

\* The background flush task (spec): when its delay is over it takes the
\* buffer under the lock ...
FlushStart ==
    /\ Alive
    /\ \E k \in SaveKinds :
         /\ task[k] = "pending"
         /\ task' = [task EXCEPT ![k] = "running"]
         /\ snap' = [snap EXCEPT ![k] = mem[k]]
         /\ dirty' = [dirty EXCEPT ![k] = FALSE]
    /\ UNCHANGED <<initialized, state, engines, taskInit, lastCall, mem,
                   disk, writesLeft, mpVars, aborted>>

\* ... and writes it to the backing file.
FlushFinish ==
    /\ Alive
    /\ \E k \in SaveKinds :
         /\ task[k] = "running"
         /\ task' = [task EXCEPT ![k] = "finished"]
         /\ disk' = [disk EXCEPT ![k] = snap[k]]
    /\ UNCHANGED <<initialized, state, engines, taskInit, lastCall, mem,
                   dirty, snap, writesLeft, mpVars, aborted>>

\* retro::task::reset (spec): the pending tasks are cancelled; the cleanup
\* handler of a cancelled task flushes its buffer if it is dirty.
\* retro::task::wait (spec): returns when the running tasks have finished.
DiskAfterTasks ==
    [k \in SaveKinds |->
        IF task[k] = "running" THEN snap[k]
        ELSE IF task[k] = "pending" /\ dirty[k] THEN mem[k]
        ELSE disk[k]]

DirtyAfterTasks ==
    [k \in SaveKinds |-> dirty[k] /\ task[k] /= "pending"]

NoTasks == [k \in SaveKinds |-> "none"]
AllClean == [k \in SaveKinds |-> FALSE]

\* retro::task::deinit (spec): the task runner is gone.
TaskDeinit ==
    /\ taskInit' = FALSE
    /\ task' = NoTasks

\* Core.UnloadGame (spec), on the files d and the dirty flags dt the tasks
\* left: the dirty buffers are flushed synchronously and the engine is
\* destroyed.
CoreUnloadGame(d, dt) ==
    /\ disk' = [k \in SaveKinds |-> IF dt[k] THEN mem[k] ELSE d[k]]
    /\ dirty' = AllClean
    /\ engines' = engines - 1
    /\ state' = "Initialized"

\* retro_unload_game: task::reset(); task::wait(); task::deinit();
\* Core.UnloadGame();
retro_unload_game_NoTaskStop ==
    /\ HasGame
    /\ CoreUnloadGame(disk, dirty)
    /\ Call("retro_unload_game", TRUE, "none", 0, <<>>,
            {task[k] : k \in SaveKinds})
    /\ UNCHANGED <<initialized, taskInit, task, mem, snap, writesLeft,
                   mpVars, aborted>>

\* Core.UnloadGame() with the task runner shut down but not drained.
retro_unload_game_NoWait ==
    /\ HasGame
    /\ taskInit' = FALSE
    /\ CoreUnloadGame(disk, dirty)
    /\ Call("retro_unload_game", TRUE, "none", 0, <<>>,
            {task[k] : k \in SaveKinds})
    /\ UNCHANGED <<initialized, task, mem, snap, writesLeft, mpVars, aborted>>

retro_unload_game ==
    /\ HasGame
    /\ TaskDeinit
    /\ CoreUnloadGame(DiskAfterTasks, DirtyAfterTasks)
    /\ Call("retro_unload_game", TRUE, "none", 0, <<>>,
            {task[k] : k \in SaveKinds})
    /\ UNCHANGED <<initialized, mem, snap, writesLeft, mpVars, aborted>>

\* Core.~CoreState and the memset of CoreStateBuffer (spec): the engine, if
\* any, is destroyed with the core state.
CoreDestroy ==
    /\ engines' = 0
    /\ initialized' = FALSE
    /\ state' = "Uninitialized"

\* retro_deinit: task::deinit(); Core.~CoreState(); memset.
retro_deinit_NoDestroy ==
    /\ Alive /\ initialized
    /\ TaskDeinit
    /\ initialized' = FALSE
    /\ state' = "Uninitialized"
    /\ Done("retro_deinit")
    /\ UNCHANGED <<engines, mem, disk, dirty, snap, writesLeft, mpVars,
                   aborted>>

retro_deinit ==
    /\ Alive /\ initialized
    /\ TaskDeinit
    /\ CoreDestroy
    /\ Done("retro_deinit")
    /\ UNCHANGED <<mem, disk, dirty, snap, writesLeft, mpVars, aborted>>

\* ================================================================== initial
InitSave(n) ==
    /\ mem = [k \in SaveKinds |-> 0]
    /\ disk = [k \in SaveKinds |-> 0]
    /\ dirty = AllClean
    /\ task = NoTasks
    /\ snap = [k \in SaveKinds |-> 0]
    /\ writesLeft = n

NoCall == [op |-> "none", ret |-> TRUE, type |-> "none", num |-> 0,
           log |-> <<>>, phases |-> {}, fault |-> "none", escaped |-> FALSE]

\* The library is loaded, retro_init was not called yet.
InitCore(n) ==
    /\ initialized = FALSE
    /\ state = "Uninitialized"
    /\ engines = 0
    /\ taskInit = FALSE
    /\ lastCall = NoCall
    /\ InitSave(n)

\* A game is running after retro_init, retro_load_game and retro_run.
InitRunning ==
    /\ initialized = TRUE
    /\ state = "Running"
    /\ engines = 1
    /\ taskInit = TRUE
    /\ lastCall = NoCall
    /\ InitSave(0)

InitMp(n) ==
    /\ mpActive = FALSE
    /\ receivedPackets = <<>>
    /\ pc = "idle"
    /\ ret = 0
    /\ aidmask = 0
    /\ timestamp = 0
    /\ packets = EmptyBuffer
    /\ oobWrite = FALSE
    /\ rxData = Untouched
    /\ rxTimestamp = Untouched
    /\ lastOp = [op |-> "none", ret |-> 0, len |-> 0]
    /\ sent = None
    /\ recvLeft = n
    /\ arrived = <<>>
    /\ delivered = <<>>
    /\ callStart = 0
    /\ handed = <<>>
    /\ aborted = FALSE

\* ---- the reply collection of the host side
Init == InitMp(MaxRecv) /\ InitRunning

Next ==
    \/ MpStarted
    \/ MpStopped
    \/ MpReceived
    \/ MP_RecvReplies
    \/ RecvRepliesStep

Spec == Init /\ [][Next]_vars

\* ---- every operation of the relay
InitAll == InitMp(MaxRecvAll) /\ InitRunning

NextAll ==
    \/ MpStarted
    \/ MpStopped
    \/ MpReceived
    \/ MP_SendPacket
    \/ MP_SendCmd
    \/ MP_SendReply
    \/ MP_SendAck
    \/ MP_RecvPacket
    \/ MP_RecvHostPacket
    \/ RecvHostPacketWake
    \/ MP_RecvReplies
    \/ RecvRepliesStep

SpecAll == InitAll /\ [][NextAll]_vars

\* The emulator thread is scheduled: a blocking call whose wait is over goes
\* on.
NextFair ==
    \/ MpStarted
    \/ MpStopped
    \/ MpReceived
    \/ MP_RecvPacket
    \/ MP_RecvHostPacket
    \/ RecvHostPacketWake
    \/ MP_RecvReplies
    \/ RecvRepliesStep

SpecFair ==
    /\ InitAll
    /\ [][NextFair]_vars
    /\ WF_vars(RecvRepliesStep)
    /\ WF_vars(RecvHostPacketWake)

\* ---- the lifecycle and the save buffers
InitLife == InitMp(0) /\ InitCore(MaxWrites)

NextCore ==
    \/ retro_init
    \/ retro_load_game
    \/ retro_load_game_special
    \/ retro_run
    \/ retro_serialize
    \/ retro_unserialize
    \/ retro_reset
    \/ HardwareContextReset
    \/ HardwareContextDestroyed
    \/ WriteNDSSave
    \/ WriteGBASave
    \/ WriteFirmware
    \/ FlushStart
    \/ FlushFinish
    \/ retro_unload_game
    \/ retro_deinit

SpecCore == InitLife /\ [][NextCore]_vars

TypeOK == pc \in {"idle", "replies", "hostpkt"}

\* =================================================================== claims
BitNot(a) == 2^MaskBits - 1 - a

\* A step in which MP_RecvReplies returns from its loop.
LoopReturn == pc = "replies" /\ pc' = "idle"
\* A step in which MP_RecvReplies returns before the loop.
EntryReturn == pc = "idle" /\ MP_RecvReplies /\ pc' = "idle"

\* The aids of the Reply packets inside the window timestamp - 32 that the
\* call dequeued up to and including this step.
FreshAids ==
    {delivered'[i].aid : i \in {j \in (callStart + 1)..Len(delivered') :
        /\ delivered'[j].type = "Reply"
        /\ delivered'[j].timestamp >= timestamp - StaleWindow}}

\* C1: the value MP_RecvReplies returns has no bit set outside aidmask.
C1_ResultWithinMask ==
    [][/\ LoopReturn => BitAnd(lastOp'.ret, BitNot(aidmask)) = 0
       /\ EntryReturn => lastOp'.ret = 0]_vars

\* C2: MP_RecvReplies returns exactly aidmask if and only if a Reply inside
\* the window was dequeued for every aid of aidmask before the relay
\* deactivated; otherwise it returns only bits collected so far.
C2_ExactlyMaskIffAllFresh ==
    [][LoopReturn =>
         /\ (lastOp'.ret = aidmask) <=> (Bits(aidmask) \subseteq FreshAids)
         /\ Bits(lastOp'.ret) \subseteq FreshAids]_vars

\* C3: once the relay is inactive a call of MP_RecvReplies in progress
\* returns, whatever is queued.
C3_RepliesReturnsAfterStop ==
    (pc = "replies" /\ ~mpActive) ~> (pc /= "replies")

C3_Witness ==
    pc = "replies" /\ ~mpActive /\ receivedPackets /= <<>>

\* C4: MP_RecvHostPacket called while the relay is inactive returns 0 at
\* once, and a call waiting on the empty queue returns 0 once the relay is
\* stopped.
C4_HostPacketEmptyAfterStop ==
    /\ [][(~mpActive /\ MP_RecvHostPacket) =>
            (pc' = "idle" /\ lastOp'.op = "MP_RecvHostPacket"
             /\ lastOp'.ret = 0)]_vars
    /\ (pc = "hostpkt" /\ ~mpActive) ~>
            (pc = "idle" /\ lastOp.op = "MP_RecvHostPacket" /\ lastOp.ret = 0)

C4_Witness ==
    pc = "hostpkt" /\ ~mpActive /\ receivedPackets = <<>>

\* C5: the payloads handed out by MP_RecvPacket and MP_RecvHostPacket are
\* payloads that were received, and those of one origin are handed out in
\* the order of their arrival, none of them twice.
C5_FifoPerOrigin ==
    \A i \in 1..Len(handed) :
        /\ handed[i] \in 1..Len(arrived)
        /\ \A j \in (i + 1)..Len(handed) :
             (/\ handed[j] \in 1..Len(arrived)
              /\ arrived[handed[i]].origin = arrived[handed[j]].origin)
                 => handed[i] < handed[j]

C5_Witness ==
    /\ Len(handed) = 2
    /\ arrived[handed[1]].origin = arrived[handed[2]].origin
    /\ lastOp.op = "MP_RecvHostPacket"

\* C6: while the relay is inactive every MP call returns 0, passes nothing
\* to the host send function and dequeues nothing.
RelayCall ==
    \/ MP_SendPacket
    \/ MP_SendCmd
    \/ MP_SendReply
    \/ MP_SendAck
    \/ MP_RecvPacket
    \/ MP_RecvHostPacket
    \/ MP_RecvReplies

C6_InactiveRelayIsNoOp ==
    [][(/\ ~mpActive /\ mpActive' = mpActive /\ recvLeft' = recvLeft
        /\ ~aborted' /\ RelayCall) =>
         /\ pc' = "idle"
         /\ lastOp'.op /= "none"
         /\ lastOp'.ret = 0
         /\ sent' = None
         /\ receivedPackets' = receivedPackets
         /\ delivered' = delivered]_vars

C6_Witness ==
    /\ ~mpActive
    /\ delivered /= <<>>
    /\ receivedPackets /= <<>>
    /\ lastOp.op = "MP_SendAck"
    /\ lastOp.len = 2
    /\ lastOp.ret = 0

\* C7: after retro_unload_game the backing file of every save kind holds
\* the buffer with every write applied, whatever the flush tasks were doing.
C7_SaveDurable ==
    (lastCall.op = "retro_unload_game" /\ state = "Initialized") =>
        \A k \in SaveKinds : disk[k] = mem[k]

C7_Witness ==
    /\ lastCall.op = "retro_unload_game"
    /\ {"pending", "running"} \subseteq lastCall.phases
    /\ writesLeft = 0
    /\ \A k \in SaveKinds : disk[k] = mem[k]
    /\ \E k \in SaveKinds : disk[k] > 0

\* C8: a load that returns false leaves the state Initialized with no
\* engine, and retro_load_game forwards the type NDS with 0 or 1 item.
LoadCall == retro_load_game \/ retro_load_game_special

C8_FailedLoadChangesNothing ==
    [][/\ (LoadCall /\ ~lastCall'.ret) =>
            /\ state = "Initialized"
            /\ state' = state
            /\ initialized'
            /\ engines' = 0
       /\ retro_load_game =>
            (lastCall'.type = "NDS" /\ lastCall'.num \in {0, 1})]_vars

C8_Witness ==
    /\ lastCall.op = "retro_load_game_special"
    /\ ~lastCall.ret
    /\ lastCall.type = "NDS"
    /\ lastCall.num = 2
    /\ state = "Initialized"
    /\ engines = 0

\* C9: one engine instance is alive in GameLoaded, Running and ContextLost,
\* none in Uninitialized, Initialized and Unloaded.
C9_OneEngineWhileLoaded ==
    /\ state \in LoadedStates => engines = 1
    /\ state \in States \ LoadedStates => engines = 0
    /\ state \in States

C9_Witness ==
    /\ state = "ContextLost"
    /\ engines = 1
    /\ ~taskInit

\* C10: retro_init on an initialized core ends in an assertion failure and
\* leaves the core state as it was; on an uninitialized core it ends with
\* the core initialized.
C10_InitTwiceAborts ==
    [][retro_init =>
         IF initialized
         THEN aborted' /\ UNCHANGED <<initialized, state, engines, taskInit>>
         ELSE initialized' /\ ~aborted' /\ state' = "Initialized"]_vars

C10_Witness ==
    /\ aborted
    /\ initialized
    /\ state = "Running"

\* What an entry point tells the host when it has caught a fault.
Reported == <<"set_error_message", "shutdown">>

\* C11: when Core.Reset or Core.ResetRenderState throws, whatever the kind
\* of the fault, retro_reset and HardwareContextReset return to the host
\* having set the error message once and then requested shutdown once;
\* when nothing is thrown they do neither.
C11_ResetFaultReported ==
    [][(retro_reset \/ HardwareContextReset) =>
         /\ ~aborted'
         /\ ~lastCall'.escaped
         /\ lastCall'.fault \in Faults \cup {"none"}
         /\ lastCall'.log =
                IF lastCall'.fault = "none" THEN <<>> ELSE Reported]_vars

C11_Witness ==
    /\ lastCall.op = "HardwareContextReset"
    /\ lastCall.fault = "unknown"
    /\ lastCall.log = Reported
    /\ state = "ContextLost"
    /\ ~aborted

\* An entry point that touches the engine.
EnginePoint ==
    \/ LoadCall
    \/ retro_run
    \/ retro_reset
    \/ retro_unload_game
    \/ retro_serialize
    \/ retro_unserialize
    \/ HardwareContextReset
    \/ HardwareContextDestroyed

\* C12: a fault raised inside any entry point that touches the engine is
\* turned into an error message and a shutdown request and does not leave
\* the entry point.
C12_FaultNeverEscapes ==
    [][(EnginePoint /\ lastCall'.fault /= "none") =>
         /\ ~lastCall'.escaped
         /\ ~aborted'
         /\ lastCall'.log = Reported]_vars

\* A pass of the loop of MP_RecvReplies that dequeued a packet, and the
\* packet.
Dequeues == RecvRepliesStep /\ Len(delivered') = Len(delivered) + 1
Dequeued == delivered'[Len(delivered')]

\* The packet lies inside the window: its timestamp is at least
\* timestamp - 32, a number that is not positive when timestamp < 32.
InWindow(p) == p.timestamp >= timestamp - StaleWindow

\* The bits collected when the pass is over.
RetAfter == IF pc' = "idle" THEN lastOp'.ret ELSE ret'

\* C13: MP_RecvReplies accepts every Reply whose timestamp is at least
\* timestamp - 32, for every timestamp, those below 32 included.
C13_WindowAcceptsBelow32 ==
    [][(Dequeues /\ Dequeued.type = "Reply" /\ InWindow(Dequeued)) =>
         Dequeued.aid \in Bits(RetAfter)]_vars

\* C14: a Reply inside the window for an aid whose bit is collected already
\* is discarded: the result and the slot of the aid stay as the first
\* accepted Reply left them and the loop goes on.
C14_DuplicateReplyDiscarded ==
    [][(/\ Dequeues
        /\ Dequeued.type = "Reply"
        /\ timestamp >= StaleWindow
        /\ InWindow(Dequeued)
        /\ Dequeued.aid \in Bits(ret)) =>
         /\ packets' = packets
         /\ ret' = ret
         /\ pc' = "replies"]_vars

\* C15: a dequeued packet that is below the window or not a Reply changes
\* neither the result nor the buffer and does not end the loop.
C15_SkippedChangesNothing ==
    [][(Dequeues /\ (~InWindow(Dequeued) \/ Dequeued.type /= "Reply")) =>
         /\ ret' = ret
         /\ packets' = packets
         /\ oobWrite' = oobWrite
         /\ pc' = "replies"
         /\ lastOp' = lastOp
         /\ ~aborted']_vars

\* A stale Reply for a requested aid was dequeued after a Reply that was
\* accepted, and the call goes on without the bit of the stale one.
C15_Witness ==
    /\ pc = "replies"
    /\ Len(delivered) = callStart + 2
    /\ ret = 2
    /\ LET p == delivered[Len(delivered)] IN
         /\ p.type = "Reply"
         /\ p.aid = MaxAid
         /\ MaxAid \in Bits(aidmask)
         /\ p.timestamp < timestamp - StaleWindow
    /\ packets[MaxAid - 1] = EmptyBuffer[MaxAid - 1]

\* A flush task that is queued or at work.
InFlight(k) == task[k] \in {"pending", "running"}

Forwarded(type, aid) ==
    sent' /= None /\ sent'.type = type /\ sent'.aid = aid

\* C17: on an active relay MP_SendPacket forwards type Other and aid 0,
\* MP_SendCmd and MP_SendAck forward type Cmd and aid 0, and MP_SendReply
\* forwards type Reply and the aid of its caller, which it asserts to be
\* below 16.
C17_SendTypesAndAids ==
    [][/\ (mpActive /\ MP_SendPacket) => Forwarded("Other", 0)
       /\ (mpActive /\ MP_SendCmd) => Forwarded("Cmd", 0)
       /\ (mpActive /\ MP_SendAck) => Forwarded("Cmd", 0)
       /\ \A len \in SendLens, aid \in SendAids :
            (mpActive /\ Idle /\ SendReply(len, aid)) =>
                IF aid < AidLimit
                THEN Forwarded("Reply", aid) /\ ~aborted'
                ELSE aborted' /\ sent' = sent]_vars

C17_Witness ==
    /\ mpActive
    /\ lastOp.op = "MP_SendAck"
    /\ sent /= None
    /\ sent.type = "Cmd"
    /\ sent.aid = 0

SendCall == MP_SendPacket \/ MP_SendCmd \/ MP_SendReply \/ MP_SendAck

\* C18: a send call returns len exactly when the host send function
\* reported success and 0 otherwise; a failed send aborts nothing, tells
\* the host nothing and leaves the relay active with its queue as it was.
C18_SendReturnsLenIffSent ==
    [][(SendCall /\ ~aborted') =>
         /\ lastOp'.len \in SendLens
         /\ (lastOp'.ret = lastOp'.len) <=> (sent' /= None /\ sent'.ok)
         /\ lastOp'.ret \in {0, lastOp'.len}
         /\ (sent' /= None /\ ~sent'.ok) =>
                /\ mpActive /\ mpActive'
                /\ receivedPackets' = receivedPackets
                /\ delivered' = delivered
                /\ lastCall' = lastCall]_vars

C18_Witness ==
    /\ mpActive
    /\ lastOp.op = "MP_SendReply"
    /\ sent /= None
    /\ ~sent.ok
    /\ lastOp.ret = 0
    /\ lastOp.len = 2
    /\ receivedPackets /= <<>>
    /\ ~aborted

\* C19: the task runner is initialized whenever the lifecycle state is
\* Initialized, GameLoaded or Running.
C19_TaskRunnerLive ==
    state \in {"Initialized", "GameLoaded", "Running"} => taskInit

\* C20: every write of MP_RecvReplies lies inside the caller's buffer and
\* copies at most 1024 bytes.
C20_WritesInsideBuffer ==
    /\ ~oobWrite
    /\ \A i \in DOMAIN packets : packets[i].len <= SlotSize

\* Some bit of aidmask is not collected yet.
BitsMissing == BitAnd(ret, aidmask) /= aidmask

\* C21: MP_RecvReplies dequeues nothing it does not need.  Its entry
\* dequeues nothing and does not enter the loop when aidmask is 0; a pass
\* of the loop takes one packet from the head of the queue, and only
\* while a bit of aidmask is missing; what is queued behind stays, in
\* order, for the next MP_RecvPacket.
C21_NoDequeueBeyondNeed ==
    /\ [][MP_RecvReplies =>
            /\ receivedPackets' = receivedPackets
            /\ delivered' = delivered
            /\ pc' = "replies" => aidmask' /= 0
            /\ pc' = "idle" => lastOp'.ret = 0]_vars
    /\ []((pc = "replies" /\ ~aborted) => BitsMissing)
    /\ [][RecvRepliesStep =>
            /\ BitsMissing
            /\ receivedPackets' \in
                   {receivedPackets, SubSeq(receivedPackets, 2,
                                            Len(receivedPackets))}
            /\ Len(delivered') - Len(delivered) =
                   Len(receivedPackets) - Len(receivedPackets')]_vars
    /\ [][(MP_RecvPacket /\ mpActive /\ receivedPackets /= <<>>) =>
            /\ rxData' = Head(receivedPackets).data
            /\ receivedPackets' = Tail(receivedPackets)]_vars

\* MP_RecvReplies took the first of two queued packets, a Reply for aid 1,
\* and the next MP_RecvPacket handed out the second.
C21_Witness ==
    /\ Len(arrived) = 2
    /\ Len(delivered) = 2
    /\ delivered[1].type = "Reply"
    /\ delivered[1].aid = 1
    /\ packets = EmptyBuffer
    /\ handed = <<2>>
    /\ rxData = 2
    /\ lastOp.op = "MP_RecvPacket"
    /\ lastOp.ret > 0
====
